---------------------------- MODULE Spec2Model ----------------------------
(***************************************************************************)
(* A model of app.py of sr-event-list: the event_id normalizer, the event  *)
(* fetcher (get_events), the archive reader (get_past_events_from_files),  *)
(* the merger and the filter pipeline of main(), the duration classifier   *)
(* (get_duration_category), the archive writer (update_archive_file), run  *)
(* alone and by two operators at once, and the authentication gate of      *)
(* main().                                                                 *)
(*                                                                         *)
(* Python strings are sequences of one-character strings.  Python values   *)
(* that reach the code as an event_id are records with a kind tag.         *)
(***************************************************************************)
EXTENDS Integers, Sequences, FiniteSets, TLC

VARIABLES
    pc,             \* position of the operation under study
    val,            \* normalize_event_id_val: the argument
    norm_result,    \* normalize_event_id_val: the returned value
    statuses,       \* get_events: the argument
    st_idx,         \* get_events: index in statuses of the status being paged
    page,           \* get_events: the page requested next
    iter,           \* get_events: iterations of "for _ in range(20)" entered
    all_events,     \* get_events: the accumulated events
    requests,       \* the requests sent upstream so far, with their outcome
    errors,         \* the statuses an st.error message was shown for
    fetched_events, \* main: the list get_events returned
    past_events,    \* main: the list get_past_events_from_files returned
    unique_events_dict, \* main: the dict keyed by normalized event_id
    merged_events,  \* main: all_events = list(unique_events_dict.values())
    start_ts,       \* get_duration_category: the arguments
    end_ts,
    category,       \* get_duration_category: the label returned
    shown_events,   \* main: all_events as the filters find it
    selected_start_dates,   \* main: the values of the four multiselects
    selected_end_dates,
    selected_durations,
    selected_targets,
    filtered_events,    \* main: the list the filters narrow and the page shows
    csv_rows,       \* the rows of the archive CSV the server holds
    now_timestamp,  \* get_past_events_from_files: int(datetime.now().timestamp())
    archive_result, \* get_past_events_from_files: the list returned
    archive_warning,    \* get_past_events_from_files: the st.warning shown, if any
    remote_archive, \* the FTP server's sr-event-archive.csv
    remote_log,     \* the FTP server's sr-event-archive-log.txt
    wpc,            \* update_archive_file: the position of each run
    new_df,         \* update_archive_file: new_df of each run
    old_df,         \* update_archive_file: old_df of each run
    merged_df,      \* update_archive_file: merged_df of each run
    log_text,       \* update_archive_file: log_text of each run
    steps,          \* the network steps each run has taken, with their outcome
    message,        \* what each run showed last: info, warning, success, error
    archive_before, \* the server's sr-event-archive.csv when the button was pressed
    log_before,     \* the server's sr-event-archive-log.txt when the button was pressed
    authenticated,  \* st.session_state.authenticated
    mksp_authenticated, \* st.session_state.mksp_authenticated
    input_room_id,  \* main: the text of the code input in the last pass of the gate
    valid_codes,    \* main: the codes of the allow-list fetched last
    auth_message,   \* main: what the last pass showed about the authentication
    updates         \* the calls of update_archive_file() in the session

normVars == <<val, norm_result>>
fetchVars == <<statuses, st_idx, page, iter, all_events, requests, errors>>
mergeVars == <<fetched_events, past_events, unique_events_dict, merged_events>>
durVars == <<start_ts, end_ts, category>>
archiveVars == <<csv_rows, now_timestamp, archive_result, archive_warning>>
writerVars == <<remote_archive, remote_log, wpc, new_df, old_df, merged_df,
                log_text, steps, message>>
beforeVars == <<archive_before, log_before>>
authVars == <<authenticated, mksp_authenticated, input_room_id, valid_codes,
              auth_message, updates>>
filterVars == <<shown_events, selected_start_dates, selected_end_dates,
                selected_durations, selected_targets, filtered_events>>

(***************************************************************************)
(* Bounds of the model.                                                    *)
(***************************************************************************)
MaxStrLen == 3      \* longest identifier text drawn as an input
MaxId == 12         \* largest numeric identifier drawn as an input
MaxLive == 3        \* longest list of live events merged
MaxArchive == 2     \* longest list of archived events merged
MaxStarts == 3      \* start times drawn: 0, StartStep, ..., MaxStarts * StartStep
Slack == 2          \* durations drawn lie within Slack seconds of a threshold
MaxShown == 2       \* longest list of events filtered
MaxSelected == 2    \* most values selected in one multiselect
MaxRows == 2        \* most rows of the archive CSV read
MaxBatch == 2       \* most events a run of the archive writer fetches
MaxOld == 2         \* most rows of the archive before the archive writer runs
MaxUpdates == 2     \* most calls of update_archive_file() in one session

(***************************************************************************)
(* Python values.                                                          *)
(***************************************************************************)
Digits == <<"0", "1", "2", "3", "4", "5", "6", "7", "8", "9">>
DigitChars == {Digits[i] : i \in 1..10}
IdChars == {"1", "0", ".", " ", "a"}

PyNone == [kind |-> "None", n |-> 0, f |-> 0, s |-> <<>>]
PyInt(n) == [kind |-> "int", n |-> n, f |-> 0, s |-> <<>>]
\* the float n + f/10 (f a decimal digit), whose repr is "n.f"
PyFloat(n, f) == [kind |-> "float", n |-> n, f |-> f, s |-> <<>>]
\* float('nan'): what pandas holds for a missing cell
PyNaN == [kind |-> "nan", n |-> 0, f |-> 0, s |-> <<>>]
PyStr(s) == [kind |-> "str", n |-> 0, f |-> 0, s |-> s]

\* the value a function returns: a str, or None
RetNone == [valid |-> FALSE, s |-> <<>>]
RetStr(s) == [valid |-> TRUE, s |-> s]

RECURSIVE StrsUpTo(_)
StrsUpTo(k) ==
    IF k = 0 THEN {<<>>}
    ELSE LET shorter == StrsUpTo(k - 1)
         IN shorter \cup {Append(s, c) : s \in {t \in shorter : Len(t) = k - 1}, c \in IdChars}

(***************************************************************************)
(* str(int) and int(str) on decimal text.                                  *)
(***************************************************************************)
RECURSIVE NatToStr(_)
NatToStr(n) ==
    IF n < 10 THEN <<Digits[n + 1]>>
    ELSE Append(NatToStr(n \div 10), Digits[(n % 10) + 1])

IntToStr(n) == IF n < 0 THEN <<"-">> \o NatToStr(0 - n) ELSE NatToStr(n)

DigitVal(c) == CHOOSE i \in 0..9 : Digits[i + 1] = c

RECURSIVE StrToNat(_)
StrToNat(s) ==
    IF s = <<>> THEN 0
    ELSE 10 * StrToNat(SubSeq(s, 1, Len(s) - 1)) + DigitVal(s[Len(s)])

\* str.strip(): leading and trailing whitespace removed
RECURSIVE LStrip(_)
LStrip(s) == IF s # <<>> /\ Head(s) = " " THEN LStrip(Tail(s)) ELSE s

RECURSIVE RStrip(_)
RStrip(s) ==
    IF s # <<>> /\ s[Len(s)] = " " THEN RStrip(SubSeq(s, 1, Len(s) - 1)) ELSE s

Strip(s) == RStrip(LStrip(s))

AllIn(s, set) == \A i \in 1..Len(s) : s[i] \in set

\* the length of the leading run of digits of s
RECURSIVE DigitRun(_)
DigitRun(s) ==
    IF s # <<>> /\ Head(s) \in DigitChars THEN 1 + DigitRun(Tail(s)) ELSE 0

\* re.match(r'^\d+(\.0+)?$', s)
MatchesIntegral(s) ==
    LET k == DigitRun(s)
        rest == SubSeq(s, k + 1, Len(s))
    IN /\ k >= 1
       /\ \/ rest = <<>>
          \/ /\ Len(rest) >= 2
             /\ Head(rest) = "."
             /\ AllIn(Tail(rest), {"0"})

\* int(float(s)) for a text the pattern matched: the digits before the point
IntOfFloatStr(s) == StrToNat(SubSeq(s, 1, DigitRun(s)))

\* str(val) of a float: repr of n + f/10, and of nan
FloatRepr(v) ==
    IF v.kind = "nan" THEN <<"n", "a", "n">>
    ELSE NatToStr(v.n) \o <<".">> \o <<Digits[v.f + 1]>>

(***************************************************************************)
(* normalize_event_id_val(val)                                             *)
(***************************************************************************)
normalize_event_id_val(v) ==
    IF v.kind = "None" THEN RetNone
    ELSE IF v.kind = "int" THEN RetStr(IntToStr(v.n))
    ELSE IF v.kind \in {"float", "nan"} THEN
        \* float.is_integer() is False for nan
        IF v.kind = "float" /\ v.f = 0 THEN RetStr(IntToStr(v.n))
        ELSE RetStr(Strip(FloatRepr(v)))
    ELSE LET s == Strip(v.s)
         IN IF MatchesIntegral(s) THEN RetStr(IntToStr(IntOfFloatStr(s)))
            ELSE IF s = <<>> THEN RetNone
            ELSE RetStr(s)

\* the cell texts pandas reads as missing, among those the model can spell
NaTexts == {<<>>, <<"n", "a", "n">>}

\* pd.read_csv(..., dtype=str): a missing cell is NaN, any other cell its text
ReadCsvCell(text) == IF text \in NaTexts THEN PyNaN ELSE PyStr(text)

\* the values an event_id arrives as: JSON null / absent key, JSON numbers,
\* JSON strings, and the cells of a CSV column
IdValues ==
    {PyNone, PyNaN}
        \cup {PyInt(n) : n \in -1..MaxId}
        \cup {PyFloat(n, f) : n \in 0..MaxId, f \in {0, 5}}
        \cup {PyStr(s) : s \in StrsUpTo(MaxStrLen)}

IdleNorm == val = PyNone /\ norm_result = RetNone

(***************************************************************************)
(* Specification of the normalizer: draw a value, apply the function.      *)
(***************************************************************************)
InitNorm ==
    /\ pc = "norm_call"
    /\ val \in IdValues
    /\ norm_result = RetNone

NormApply ==
    /\ pc = "norm_call"
    /\ norm_result' = normalize_event_id_val(val)
    /\ pc' = "norm_done"
    /\ UNCHANGED val

(***************************************************************************)
(* get_events(statuses)                                                    *)
(***************************************************************************)
MaxPages == 20

\* the status codes of status_options, in the order main() appends them
StatusCodes == <<1, 3, 4>>

\* selected_statuses of main(): the checked codes in order (never empty
\* when get_events is called); update_archive_file passes [1, 3, 4]
RECURSIVE SubSeqsOf(_)
SubSeqsOf(s) ==
    IF s = <<>> THEN {<<>>}
    ELSE LET rest == SubSeqsOf(Tail(s))
         IN rest \cup {<<Head(s)>> \o r : r \in rest}

StatusLists == SubSeqsOf(StatusCodes) \ {<<>>}

\* the one event the upstream holds on page p of status s
PageEvent(s, p) == <<s, p>>

\* a decoded JSON body: the list under 'events', under 'event_list', or neither
JsonBody(hasEvents, events, hasEventList, eventList) ==
    [has_events |-> hasEvents, events |-> events,
     has_event_list |-> hasEventList, event_list |-> eventList]

\* data.get('events', data.get('event_list', []))
PageEvents(data) ==
    IF data.has_events THEN data.events
    ELSE IF data.has_event_list THEN data.event_list
    ELSE <<>>

\* the bodies the upstream may answer a request for page p of status s with
Bodies(s, p) ==
    {JsonBody(TRUE, <<PageEvent(s, p)>>, FALSE, <<>>),
     JsonBody(FALSE, <<>>, TRUE, <<PageEvent(s, p)>>),
     JsonBody(TRUE, <<>>, FALSE, <<>>),
     JsonBody(TRUE, <<>>, TRUE, <<PageEvent(s, p)>>),
     JsonBody(FALSE, <<>>, TRUE, <<>>),
     JsonBody(FALSE, <<>>, FALSE, <<>>)}

Request(s, p, outcome) == [status |-> s, page |-> p, outcome |-> outcome]

IdleFetch ==
    /\ statuses = <<>>
    /\ st_idx = 0
    /\ page = 1
    /\ iter = 0
    /\ all_events = <<>>
    /\ requests = <<>>
    /\ errors = <<>>

InitFetch ==
    /\ pc = "fetch_status"
    /\ statuses \in StatusLists
    /\ st_idx = 0
    /\ page = 1
    /\ iter = 0
    /\ all_events = <<>>
    /\ requests = <<>>
    /\ errors = <<>>

\* "for status in statuses": the next status, page = 1
FetchEnterStatus ==
    /\ pc = "fetch_status"
    /\ st_idx < Len(statuses)
    /\ st_idx' = st_idx + 1
    /\ page' = 1
    /\ iter' = 0
    /\ pc' = "fetch_page"
    /\ UNCHANGED <<statuses, all_events, requests, errors>>

\* a page with events: extend, page += 1, next iteration
FetchPageEvents ==
    /\ pc = "fetch_page"
    /\ iter < MaxPages
    /\ \E data \in Bodies(statuses[st_idx], page) :
        /\ PageEvents(data) # <<>>
        /\ all_events' = all_events \o PageEvents(data)
    /\ requests' = Append(requests, Request(statuses[st_idx], page, "events"))
    /\ page' = page + 1
    /\ iter' = iter + 1
    /\ UNCHANGED <<pc, statuses, st_idx, errors>>

\* FetchPageEmpty without the break: the loop goes on to its next iteration
FetchPageEmptyNoBreak ==
    /\ pc = "fetch_page"
    /\ iter < MaxPages
    /\ \E data \in Bodies(statuses[st_idx], page) : PageEvents(data) = <<>>
    /\ requests' = Append(requests, Request(statuses[st_idx], page, "empty"))
    /\ iter' = iter + 1
    /\ UNCHANGED <<pc, statuses, st_idx, page, all_events, errors>>

\* "if not page_events: break"
FetchPageEmpty ==
    /\ pc = "fetch_page"
    /\ iter < MaxPages
    /\ \E data \in Bodies(statuses[st_idx], page) : PageEvents(data) = <<>>
    /\ requests' = Append(requests, Request(statuses[st_idx], page, "empty"))
    /\ iter' = iter + 1
    /\ pc' = "fetch_status"
    /\ UNCHANGED <<statuses, st_idx, page, all_events, errors>>

\* FetchRequestError leaving both loops: the later statuses are never paged
FetchRequestErrorReturns ==
    /\ pc = "fetch_page"
    /\ iter < MaxPages
    /\ requests' = Append(requests, Request(statuses[st_idx], page, "request_error"))
    /\ errors' = Append(errors, statuses[st_idx])
    /\ iter' = iter + 1
    /\ pc' = "fetch_done"
    /\ UNCHANGED <<statuses, st_idx, page, all_events>>

\* requests.get or raise_for_status raises RequestException: st.error, break
FetchRequestError ==
    /\ pc = "fetch_page"
    /\ iter < MaxPages
    /\ requests' = Append(requests, Request(statuses[st_idx], page, "request_error"))
    /\ errors' = Append(errors, statuses[st_idx])
    /\ iter' = iter + 1
    /\ pc' = "fetch_status"
    /\ UNCHANGED <<statuses, st_idx, page, all_events>>

\* response.json() raises ValueError: st.error, break
FetchJsonError ==
    /\ pc = "fetch_page"
    /\ iter < MaxPages
    /\ requests' = Append(requests, Request(statuses[st_idx], page, "json_error"))
    /\ errors' = Append(errors, statuses[st_idx])
    /\ iter' = iter + 1
    /\ pc' = "fetch_status"
    /\ UNCHANGED <<statuses, st_idx, page, all_events>>

\* range(20) is exhausted
FetchPageCap ==
    /\ pc = "fetch_page"
    /\ iter = MaxPages
    /\ pc' = "fetch_status"
    /\ UNCHANGED fetchVars

\* "return all_events"
FetchReturn ==
    /\ pc = "fetch_status"
    /\ st_idx = Len(statuses)
    /\ pc' = "fetch_done"
    /\ UNCHANGED fetchVars

(***************************************************************************)
(* main(): the merge of the live and the archived events.                  *)
(***************************************************************************)
SeqsUpTo(S, n) == UNION {[1..k -> S] : k \in 0..n}

IsInjective(q) == \A i, j \in 1..Len(q) : q[i] = q[j] => i = j

\* an event dict; origin tells the objects apart: the list it came in with
\* and its place there
Event(id, src, i) == [event_id |-> id, origin |-> <<src, i>>]

\* event_id values of the live source: JSON numbers and strings, null
LiveIdValues ==
    {PyInt(1), PyStr(<<"1", ".", "0">>), PyFloat(1, 0), PyInt(2), PyStr(<<" ", "2">>),
     PyNone, PyStr(<<" ">>)}

\* event_id values of the rows get_past_events_from_files returns:
\* normalized already, no two rows alike
ArchiveIdValues == {PyStr(<<"1">>), PyStr(<<"2">>), PyStr(<<"3">>)}

\* a Python dict: its items in insertion order
DictHas(d, k) == \E i \in 1..Len(d) : d[i].key = k

\* d[k] = v: a new key goes last, a known key keeps its place
DictSet(d, k, v) ==
    IF DictHas(d, k)
    THEN [i \in 1..Len(d) |-> IF d[i].key = k THEN [key |-> k, value |-> v] ELSE d[i]]
    ELSE Append(d, [key |-> k, value |-> v])

DictValues(d) == [i \in 1..Len(d) |-> d[i].value]

\* InsertLive without "if eid is None: continue"
InsertLiveNoSkip(d, event) ==
    LET eid == normalize_event_id_val(event.event_id)
    IN DictSet(d, eid, [event EXCEPT !.event_id = PyStr(eid.s)])

\* the body of "for event in fetched_events"
InsertLive(d, event) ==
    LET eid == normalize_event_id_val(event.event_id)
    IN IF ~eid.valid THEN d
       ELSE DictSet(d, eid, [event EXCEPT !.event_id = PyStr(eid.s)])

\* InsertArchive without "if eid not in unique_events_dict"
InsertArchiveOverwrite(d, event) ==
    LET eid == normalize_event_id_val(event.event_id)
    IN IF ~eid.valid THEN d
       ELSE DictSet(d, eid, [event EXCEPT !.event_id = PyStr(eid.s)])

\* the body of "for event in past_events"
InsertArchive(d, event) ==
    LET eid == normalize_event_id_val(event.event_id)
    IN IF ~eid.valid THEN d
       ELSE IF DictHas(d, eid) THEN d
       ELSE DictSet(d, eid, [event EXCEPT !.event_id = PyStr(eid.s)])

RECURSIVE InsertAllLive(_, _)
InsertAllLive(d, events) ==
    IF events = <<>> THEN d
    ELSE InsertAllLive(InsertLive(d, Head(events)), Tail(events))

RECURSIVE InsertAllArchive(_, _)
InsertAllArchive(d, events) ==
    IF events = <<>> THEN d
    ELSE InsertAllArchive(InsertArchive(d, Head(events)), Tail(events))

IdleMerge ==
    /\ fetched_events = <<>>
    /\ past_events = <<>>
    /\ unique_events_dict = <<>>
    /\ merged_events = <<>>

\* fetched_events is [] when no status is selected, past_events is [] when
\* the archive is not selected
InitMerge ==
    /\ pc = "merge_live"
    /\ \E ids \in SeqsUpTo(LiveIdValues, MaxLive) :
          fetched_events = [i \in 1..Len(ids) |-> Event(ids[i], "live", i)]
    /\ \E ids \in {q \in SeqsUpTo(ArchiveIdValues, MaxArchive) : IsInjective(q)} :
          past_events = [i \in 1..Len(ids) |-> Event(ids[i], "archive", i)]
    /\ unique_events_dict = <<>>
    /\ merged_events = <<>>

MergeLive ==
    /\ pc = "merge_live"
    /\ unique_events_dict' = InsertAllLive(unique_events_dict, fetched_events)
    /\ pc' = "merge_archive"
    /\ UNCHANGED <<fetched_events, past_events, merged_events>>

MergeArchive ==
    /\ pc = "merge_archive"
    /\ unique_events_dict' = InsertAllArchive(unique_events_dict, past_events)
    /\ pc' = "merge_list"
    /\ UNCHANGED <<fetched_events, past_events, merged_events>>

MergeList ==
    /\ pc = "merge_list"
    /\ merged_events' = DictValues(unique_events_dict)
    /\ pc' = "merge_done"
    /\ UNCHANGED <<fetched_events, past_events, unique_events_dict>>

(***************************************************************************)
(* get_duration_category(start_ts, end_ts)                                 *)
(*                                                                         *)
(* The labels stand for the source's: "within3days" for 3-nichi-inai,      *)
(* "1week" for 1-shuukan, "10days" for 10-ka, "2weeks" for 2-shuukan and   *)
(* "other" for sonota.                                                     *)
(***************************************************************************)
Day == 86400

\* timedelta(days=n) in seconds; timedelta values compare as their seconds
TimedeltaDays(n) == n * Day

\* get_duration_category with "<" for the first "<="
DurationCategoryStrict(start, end) ==
    LET duration == end - start
    IN IF duration < TimedeltaDays(3) THEN "within3days"
       ELSE IF duration <= TimedeltaDays(7) THEN "1week"
       ELSE IF duration <= TimedeltaDays(10) THEN "10days"
       ELSE IF duration <= TimedeltaDays(14) THEN "2weeks"
       ELSE "other"

get_duration_category(start, end) ==
    LET duration == end - start
    IN IF duration <= TimedeltaDays(3) THEN "within3days"
       ELSE IF duration <= TimedeltaDays(7) THEN "1week"
       ELSE IF duration <= TimedeltaDays(10) THEN "10days"
       ELSE IF duration <= TimedeltaDays(14) THEN "2weeks"
       ELSE "other"

StartStep == 500000000

\* the durations drawn: around 0 and around each threshold
DurationPool == {k * Day + o : k \in {0, 3, 7, 10, 14}, o \in (0 - Slack)..Slack}

IdleDur == start_ts = 0 /\ end_ts = 0 /\ category = ""

InitDur ==
    /\ pc = "dur_call"
    /\ start_ts \in {i * StartStep : i \in 0..MaxStarts}
    /\ \E d \in DurationPool : end_ts = start_ts + d
    /\ category = ""

DurApply ==
    /\ pc = "dur_call"
    /\ category' = get_duration_category(start_ts, end_ts)
    /\ pc' = "dur_done"
    /\ UNCHANGED <<start_ts, end_ts>>

(***************************************************************************)
(* main(): the four filters.                                               *)
(*                                                                         *)
(* An option of a date multiselect is a formatted date and stands for that *)
(* date (start_date_options); the model names it by the date, a day number.*)
(* The target labels "all" and "limited" stand for zen-raibaa and          *)
(* taishousha-gentei.                                                      *)
(***************************************************************************)
\* datetime.fromtimestamp(ts, JST).date() as days since 1970-01-01: JST is
\* UTC+9 throughout
JstDate(ts) == (ts + 9 * 3600) \div Day

DurationOptions == {"within3days", "1week", "10days", "2weeks", "other"}
TargetOptions == {"all", "limited"}

\* target_map
TargetValue(label) == label = "limited"

\* an event dict: keys are the fields it holds; a field it lacks reads 0 or
\* FALSE here and is never read by the code
ShownEvent(id, keys, s, e, inner) ==
    [event_id |-> id, keys |-> keys, started_at |-> s, ended_at |-> e,
     is_entry_scope_inner |-> inner]

Has(e, k) == k \in e.keys

NoTime == 0 - 1
StartPool == {NoTime, 0, 54000}
EndPool == {NoTime, 3 * Day, 54000 + 3 * Day + 1}
ScopePool == {"absent", "true", "false"}

EventShapes ==
    {ShownEvent(<<>>,
                {k \in {"started_at", "ended_at", "is_entry_scope_inner"} :
                    \/ k = "started_at" /\ s # NoTime
                    \/ k = "ended_at" /\ e # NoTime
                    \/ k = "is_entry_scope_inner" /\ sc # "absent"},
                IF s = NoTime THEN 0 ELSE s,
                IF e = NoTime THEN 0 ELSE e,
                sc = "true") :
        s \in StartPool, e \in EndPool, sc \in ScopePool}

\* the merged lists: at least one event (main stops on an empty list), the
\* identifiers all different
ShownLists ==
    {[i \in 1..Len(q) |-> [q[i] EXCEPT !.event_id = NatToStr(i)]] :
        q \in SeqsUpTo(EventShapes, MaxShown) \ {<<>>}}

SeqRange(q) == {q[i] : i \in 1..Len(q)}

StartDateOptions(events) ==
    {JstDate(e.started_at) : e \in {x \in SeqRange(events) : Has(x, "started_at")}}

EndDateOptions(events) ==
    {JstDate(e.ended_at) : e \in {x \in SeqRange(events) : Has(x, "ended_at")}}

Selections(options) == {sel \in SUBSET options : Cardinality(sel) <= MaxSelected}

IdleFilter ==
    /\ shown_events = <<>>
    /\ selected_start_dates = {}
    /\ selected_end_dates = {}
    /\ selected_durations = {}
    /\ selected_targets = {}
    /\ filtered_events = <<>>

\* "filtered_events = all_events", the multiselects read
InitFilter ==
    /\ pc = "filter_start"
    /\ shown_events \in ShownLists
    /\ selected_start_dates \in Selections(StartDateOptions(shown_events))
    /\ selected_end_dates \in Selections(EndDateOptions(shown_events))
    /\ selected_durations \in Selections(DurationOptions)
    /\ selected_targets \in Selections(TargetOptions)
    /\ filtered_events = shown_events

selections == <<shown_events, selected_start_dates, selected_end_dates,
                selected_durations, selected_targets>>

\* "if selected_start_dates:"
FilterStartDates ==
    /\ pc = "filter_start"
    /\ filtered_events' =
          IF selected_start_dates # {}
          THEN SelectSeq(filtered_events,
                         LAMBDA e : /\ Has(e, "started_at")
                                    /\ JstDate(e.started_at) \in selected_start_dates)
          ELSE filtered_events
    /\ pc' = "filter_end"
    /\ UNCHANGED selections

\* "if selected_end_dates:"
FilterEndDates ==
    /\ pc = "filter_end"
    /\ filtered_events' =
          IF selected_end_dates # {}
          THEN SelectSeq(filtered_events,
                         LAMBDA e : /\ Has(e, "ended_at")
                                    /\ JstDate(e.ended_at) \in selected_end_dates)
          ELSE filtered_events
    /\ pc' = "filter_duration"
    /\ UNCHANGED selections

\* e['started_at'] or e['ended_at'] raises KeyError for some e of the list
DurationKeyError(events) ==
    \E e \in SeqRange(events) : ~Has(e, "started_at") \/ ~Has(e, "ended_at")

\* "if selected_durations:", every event holding both times
FilterDurations ==
    /\ pc = "filter_duration"
    /\ selected_durations # {} => ~DurationKeyError(filtered_events)
    /\ filtered_events' =
          IF selected_durations # {}
          THEN SelectSeq(filtered_events,
                         LAMBDA e : get_duration_category(e.started_at, e.ended_at)
                                        \in selected_durations)
          ELSE filtered_events
    /\ pc' = "filter_target"
    /\ UNCHANGED selections

\* "if selected_durations:", the comprehension raising KeyError, which
\* nothing in main() catches: the render pass ends there
FilterDurationsRaise ==
    /\ pc = "filter_duration"
    /\ selected_durations # {}
    /\ DurationKeyError(filtered_events)
    /\ pc' = "filter_raised"
    /\ UNCHANGED filterVars

\* "if selected_targets:"; e.get('is_entry_scope_inner') is None for an
\* event without the field, and None is in no set of booleans
FilterTargets ==
    /\ pc = "filter_target"
    /\ filtered_events' =
          IF selected_targets # {}
          THEN SelectSeq(filtered_events,
                         LAMBDA e : /\ Has(e, "is_entry_scope_inner")
                                    /\ e.is_entry_scope_inner
                                           \in {TargetValue(l) : l \in selected_targets})
          ELSE filtered_events
    /\ pc' = "filter_done"
    /\ UNCHANGED selections

(***************************************************************************)
(* get_past_events_from_files()                                            *)
(***************************************************************************)
CsvRow(id, s, e, inner) ==
    [event_id |-> id, started_at |-> s, ended_at |-> e, is_entry_scope_inner |-> inner]

IdCells == {<<>>, <<"1">>, <<"1", ".", "0">>, <<" ">>}
StartCells == {<<"a">>, <<"1">>}
EndCells == {<<"a">>, <<"2">>, <<"4">>}
ScopeCells == {<<>>, <<"T", "r", "u", "e">>}
NowValues == {3, 5}

CsvRowShapes ==
    {CsvRow(id, s, e, inner) :
        id \in IdCells, s \in StartCells, e \in EndCells, inner \in ScopeCells}

\* str.lower() on the letters the model spells
LowerChar(c) == IF c = "T" THEN "t" ELSE c
Lower(s) == [i \in 1..Len(s) |-> LowerChar(s[i])]

\* df['is_entry_scope_inner'].astype(str).str.lower().str.strip() == 'true'
ScopeFlag(cell) ==
    LET text == IF cell.kind = "nan" THEN <<"n", "a", "n">> ELSE cell.s
    IN Strip(Lower(text)) = <<"t", "r", "u", "e">>

\* pd.to_numeric(..., errors='coerce'): the number, or NaN
IsNumericCell(cell) == cell.kind = "str" /\ cell.s # <<>> /\ AllIn(cell.s, DigitChars)
NumericValue(cell) == StrToNat(cell.s)

\* a row of the DataFrame; row is its line in the CSV
ArchiveEvent(i, id, s, e, inner) ==
    [row |-> i, event_id |-> id, started_at |-> s, ended_at |-> e,
     is_entry_scope_inner |-> inner]

\* the lines whose timestamps are numeric and whose event_id normalizes to
\* a string: what the two dropna calls leave
KeptLines(rows) ==
    {i \in 1..Len(rows) :
        /\ IsNumericCell(ReadCsvCell(rows[i].started_at))
        /\ IsNumericCell(ReadCsvCell(rows[i].ended_at))
        /\ normalize_event_id_val(ReadCsvCell(rows[i].event_id)).valid}

\* drop_duplicates(subset=['event_id'], keep='last') over those lines
LastOfId(rows) ==
    {i \in KeptLines(rows) :
        \A j \in KeptLines(rows) :
            normalize_event_id_val(ReadCsvCell(rows[j].event_id))
                = normalize_event_id_val(ReadCsvCell(rows[i].event_id)) => j <= i}

\* df[df['ended_at'] < now_timestamp]
EndedLines(rows, now) ==
    {i \in LastOfId(rows) : NumericValue(ReadCsvCell(rows[i].ended_at)) < now}

ArchiveEventOf(rows, i) ==
    ArchiveEvent(i,
                 PyStr(normalize_event_id_val(ReadCsvCell(rows[i].event_id)).s),
                 NumericValue(ReadCsvCell(rows[i].started_at)),
                 NumericValue(ReadCsvCell(rows[i].ended_at)),
                 ScopeFlag(ReadCsvCell(rows[i].is_entry_scope_inner)))

\* sort_values(by="ended_at", ascending=False): the default sort is not
\* stable, rows of equal ended_at come in any order
SortedByEndDesc(rows, lines) ==
    {q \in [1..Cardinality(lines) -> lines] :
        /\ IsInjective(q)
        /\ \A a, b \in 1..Len(q) :
               a < b => NumericValue(ReadCsvCell(rows[q[a]].ended_at))
                            >= NumericValue(ReadCsvCell(rows[q[b]].ended_at))}

IdleArchive ==
    /\ csv_rows = <<>>
    /\ now_timestamp = 0
    /\ archive_result = <<>>
    /\ archive_warning = "none"

InitArchive ==
    /\ pc = "archive_call"
    /\ csv_rows \in SeqsUpTo(CsvRowShapes, MaxRows)
    /\ now_timestamp \in NowValues
    /\ archive_result = <<>>
    /\ archive_warning = "none"

\* the download and the parse succeed
ArchiveRead ==
    /\ pc = "archive_call"
    /\ \E q \in SortedByEndDesc(csv_rows, EndedLines(csv_rows, now_timestamp)) :
          archive_result' = [k \in 1..Len(q) |-> ArchiveEventOf(csv_rows, q[k])]
    /\ pc' = "archive_done"
    /\ UNCHANGED <<csv_rows, now_timestamp, archive_warning>>

\* requests.get or raise_for_status raises RequestException
ArchiveRequestError ==
    /\ pc = "archive_call"
    /\ archive_result' = <<>>
    /\ archive_warning' = "request_error"
    /\ pc' = "archive_done"
    /\ UNCHANGED <<csv_rows, now_timestamp>>

\* the decode or pd.read_csv raises
ArchiveParseError ==
    /\ pc = "archive_call"
    /\ archive_result' = <<>>
    /\ archive_warning' = "parse_error"
    /\ pc' = "archive_done"
    /\ UNCHANGED <<csv_rows, now_timestamp>>

(***************************************************************************)
(* update_archive_file(), with ftp_download and ftp_upload.                *)
(*                                                                         *)
(* A run is one press of the update button in one session; its local       *)
(* variables are indexed by the run.  The files of the FTP server are      *)
(* shared by the runs.                                                     *)
(***************************************************************************)
Runs == {1, 2}

\* a file of the server: absent, or its rows (lines)
NoFile == [exists |-> FALSE, rows |-> <<>>]
File(rows) == [exists |-> TRUE, rows |-> rows]

\* a row of the archive CSV: the text of its event_id cell; ver tells the
\* contents of rows with one identifier apart
ArchiveRow(id, ver) == [event_id |-> id, ver |-> ver]

\* a row of a DataFrame: event_id after normalize_event_id_val
DfRow(id, ver) == [event_id |-> id, ver |-> ver]

BatchIdValues == {PyInt(1), PyInt(2), PyNone}
OldIdCells == {<<"1">>, <<"3">>}

\* what get_events([1, 3, 4]) may return to run r, projected to the
\* archived fields
Batches(r) ==
    {[i \in 1..Len(ids) |-> [event_id |-> ids[i], ver |-> <<"run", r>>]] :
        ids \in SeqsUpTo(BatchIdValues, MaxBatch)}

OldArchives ==
    {NoFile} \cup
    {File([i \in 1..Len(ids) |-> ArchiveRow(ids[i], <<"old", i>>)]) :
        ids \in SeqsUpTo(OldIdCells, MaxOld)}

LogLine(r, added, total) == [run |-> r, added |-> added, total |-> total]

OldLogs == {NoFile, File(<<>>), File(<<LogLine(0, 0, 0)>>)}

Step(name, outcome) == [step |-> name, outcome |-> outcome]

\* drop_duplicates(subset=["event_id"]): the first row of each identifier
RECURSIVE KeepFirst(_)
KeepFirst(q) ==
    IF q = <<>> THEN <<>>
    ELSE LET front == SubSeq(q, 1, Len(q) - 1)
             last == q[Len(q)]
         IN IF \E i \in 1..Len(front) : front[i].event_id = last.event_id
            THEN KeepFirst(front)
            ELSE Append(KeepFirst(front), last)

\* drop_duplicates(subset=["event_id"], keep="last")
RECURSIVE KeepLast(_)
KeepLast(q) ==
    IF q = <<>> THEN <<>>
    ELSE IF \E i \in 2..Len(q) : q[i].event_id = Head(q).event_id
         THEN KeepLast(Tail(q))
         ELSE <<Head(q)>> \o KeepLast(Tail(q))

\* new_df: event_id normalized, dropna, drop_duplicates
NewFrame(batch) ==
    KeepFirst(SelectSeq([i \in 1..Len(batch) |->
                            DfRow(normalize_event_id_val(batch[i].event_id), batch[i].ver)],
                        LAMBDA row : row.event_id.valid))

\* old_df: pd.read_csv(..., dtype=str), event_id normalized
OldFrame(file) ==
    [i \in 1..Len(file.rows) |->
        DfRow(normalize_event_id_val(ReadCsvCell(file.rows[i].event_id)), file.rows[i].ver)]

\* merged_df: pd.concat([old_df, new_df]), drop_duplicates keep="last"
MergedFrame(old, new) == KeepLast(old \o new)

\* merged_df.to_csv(index=False): None is written as an empty cell
ToCsv(df) ==
    [i \in 1..Len(df) |->
        ArchiveRow(IF df[i].event_id.valid THEN df[i].event_id.s ELSE <<>>, df[i].ver)]

IdleWriter ==
    /\ remote_archive = NoFile
    /\ remote_log = NoFile
    /\ wpc = [r \in Runs |-> "w_off"]
    /\ new_df = [r \in Runs |-> <<>>]
    /\ old_df = [r \in Runs |-> <<>>]
    /\ merged_df = [r \in Runs |-> <<>>]
    /\ log_text = [r \in Runs |-> <<>>]
    /\ steps = [r \in Runs |-> <<>>]
    /\ message = [r \in Runs |-> "none"]

\* one operator presses the button
InitWriter ==
    /\ pc = "writer"
    /\ remote_archive \in OldArchives
    /\ remote_log \in OldLogs
    /\ wpc = [r \in Runs |-> IF r = 1 THEN "w_fetch" ELSE "w_off"]
    /\ new_df = [r \in Runs |-> <<>>]
    /\ old_df = [r \in Runs |-> <<>>]
    /\ merged_df = [r \in Runs |-> <<>>]
    /\ log_text = [r \in Runs |-> <<>>]
    /\ steps = [r \in Runs |-> <<>>]
    /\ message = [r \in Runs |-> "info"]

\* two operators press the button at the same time, each in a session
InitRace ==
    /\ pc = "writer_race"
    /\ remote_archive \in OldArchives
    /\ remote_log \in {NoFile, File(<<LogLine(0, 0, 0)>>)}
    /\ wpc = [r \in Runs |-> "w_fetch"]
    /\ new_df = [r \in Runs |-> <<>>]
    /\ old_df = [r \in Runs |-> <<>>]
    /\ merged_df = [r \in Runs |-> <<>>]
    /\ log_text = [r \in Runs |-> <<>>]
    /\ steps = [r \in Runs |-> <<>>]
    /\ message = [r \in Runs |-> "info"]

\* no run is under way: nothing was recorded
IdleBefore ==
    /\ archive_before = NoFile
    /\ log_before = NoFile

\* the files as the server holds them when the button is pressed
InitBefore ==
    /\ archive_before = remote_archive
    /\ log_before = remote_log

Took(r, name, outcome) == steps' = [steps EXCEPT ![r] = Append(@, Step(name, outcome))]

\* get_events returns events (all of them, or what it had when a request
\* failed); new_df is built from them
WriterFetch(r) ==
    /\ wpc[r] = "w_fetch"
    /\ \E batch \in Batches(r) \ {<<>>} : new_df' = [new_df EXCEPT ![r] = NewFrame(batch)]
    /\ \E outcome \in {"ok", "failed"} : Took(r, "fetch", outcome)
    /\ wpc' = [wpc EXCEPT ![r] = "w_download"]
    /\ UNCHANGED <<pc, remote_archive, remote_log, old_df, merged_df, log_text, message>>

\* the return of "if new_df.empty:" left out: the warning is shown and the
\* run goes on to the download
WriterFetchNothingNoReturn(r) ==
    /\ wpc[r] = "w_fetch"
    /\ \E outcome \in {"ok", "failed"} : Took(r, "fetch", outcome)
    /\ message' = [message EXCEPT ![r] = "warning"]
    /\ wpc' = [wpc EXCEPT ![r] = "w_download"]
    /\ UNCHANGED <<pc, remote_archive, remote_log, new_df, old_df, merged_df, log_text>>

\* get_events returns []: "if new_df.empty:", st.warning, return
WriterFetchNothing(r) ==
    /\ wpc[r] = "w_fetch"
    /\ \E outcome \in {"ok", "failed"} : Took(r, "fetch", outcome)
    /\ message' = [message EXCEPT ![r] = "warning"]
    /\ wpc' = [wpc EXCEPT ![r] = "w_returned"]
    /\ UNCHANGED <<pc, remote_archive, remote_log, new_df, old_df, merged_df, log_text>>

\* what follows the download of the archive, up to the upload
Merged(r, old) ==
    /\ old_df' = [old_df EXCEPT ![r] = old]
    /\ merged_df' = [merged_df EXCEPT ![r] = MergedFrame(old, new_df[r])]
    /\ wpc' = [wpc EXCEPT ![r] = "w_upload"]
    /\ UNCHANGED <<pc, remote_archive, remote_log, new_df, log_text, message>>

\* ftp_download returns the text of the archive
WriterGetArchive(r) ==
    /\ wpc[r] = "w_download"
    /\ remote_archive.exists
    /\ Took(r, "download_archive", "ok")
    /\ Merged(r, OldFrame(remote_archive))

\* ftp.retrbinary (or the decode) raises inside ftp_download, which
\* returns None: the file is absent, or it is there and the transfer failed
WriterGetArchiveNone(r) ==
    /\ wpc[r] = "w_download"
    /\ Took(r, "download_archive", IF remote_archive.exists THEN "failed" ELSE "absent")
    /\ Merged(r, <<>>)

\* the exception of a failed step leaves update_archive_file; main() shows it
Aborted(r) ==
    /\ wpc' = [wpc EXCEPT ![r] = "w_failed"]
    /\ message' = [message EXCEPT ![r] = "error"]
    /\ UNCHANGED <<pc, remote_archive, remote_log, new_df, old_df, merged_df, log_text>>

\* ftplib.FTP(host) or ftp.login raises in ftp_download
WriterGetArchiveAbort(r) ==
    /\ wpc[r] = "w_download"
    /\ Took(r, "download_archive", "failed")
    /\ Aborted(r)

\* an upload that reads the archive of the server again and merges the
\* batch of the run into it
WriterPutArchiveMerging(r) ==
    /\ wpc[r] = "w_upload"
    /\ remote_archive' =
          File(ToCsv(MergedFrame(IF remote_archive.exists THEN OldFrame(remote_archive)
                                 ELSE <<>>,
                                 new_df[r])))
    /\ Took(r, "upload_archive", "ok")
    /\ wpc' = [wpc EXCEPT ![r] = "w_log_download"]
    /\ UNCHANGED <<pc, remote_log, new_df, old_df, merged_df, log_text, message>>

\* ftp_upload of the archive
WriterPutArchive(r) ==
    /\ wpc[r] = "w_upload"
    /\ remote_archive' = File(ToCsv(merged_df[r]))
    /\ Took(r, "upload_archive", "ok")
    /\ wpc' = [wpc EXCEPT ![r] = "w_log_download"]
    /\ UNCHANGED <<pc, remote_log, new_df, old_df, merged_df, log_text, message>>

\* ftp_upload of the archive raises
WriterPutArchiveAbort(r) ==
    /\ wpc[r] = "w_upload"
    /\ Took(r, "upload_archive", "failed")
    /\ Aborted(r)

\* the line of this run
OwnLine(r) == LogLine(r, Len(merged_df[r]) - Len(old_df[r]), Len(merged_df[r]))

LogRead(r, lines) ==
    /\ log_text' = [log_text EXCEPT ![r] = Append(lines, OwnLine(r))]
    /\ wpc' = [wpc EXCEPT ![r] = "w_log_upload"]
    /\ UNCHANGED <<pc, remote_archive, remote_log, new_df, old_df, merged_df, message>>

\* ftp_download returns the text of the log ("" of an empty log is falsy,
\* and the new text is the line alone, as it is after the concatenation)
WriterGetLog(r) ==
    /\ wpc[r] = "w_log_download"
    /\ remote_log.exists
    /\ Took(r, "download_log", "ok")
    /\ LogRead(r, remote_log.rows)

\* ftp_download returns None for the log
WriterGetLogNone(r) ==
    /\ wpc[r] = "w_log_download"
    /\ Took(r, "download_log", IF remote_log.exists THEN "failed" ELSE "absent")
    /\ LogRead(r, <<>>)

WriterGetLogAbort(r) ==
    /\ wpc[r] = "w_log_download"
    /\ Took(r, "download_log", "failed")
    /\ Aborted(r)

\* ftp_upload of the log, st.success
WriterPutLog(r) ==
    /\ wpc[r] = "w_log_upload"
    /\ remote_log' = File(log_text[r])
    /\ Took(r, "upload_log", "ok")
    /\ message' = [message EXCEPT ![r] = "success"]
    /\ wpc' = [wpc EXCEPT ![r] = "w_done"]
    /\ UNCHANGED <<pc, remote_archive, new_df, old_df, merged_df, log_text>>

WriterPutLogAbort(r) ==
    /\ wpc[r] = "w_log_upload"
    /\ Took(r, "upload_log", "failed")
    /\ Aborted(r)

(***************************************************************************)
(* main(): the authentication gate and the button of the archive writer.   *)
(*                                                                         *)
(* An action is one pass of the script in one session: Streamlit runs the  *)
(* script again for each interaction.                                      *)
(***************************************************************************)
\* the hardcoded code of line 364
MasterCode == <<"m", "k", "s", "p">>

\* what an operator may type in the code input
InputCodes ==
    {<<>>, <<" ">>, MasterCode, <<" ">> \o MasterCode, Append(MasterCode, " "),
     <<"a">>, <<"a", " ">>, <<"b">>}

\* what line 375 may build from the response: the stripped cells of the
\* first column
AllowLists == SUBSET {<<"a">>, <<"b">>, MasterCode}

IdleAuth ==
    /\ authenticated = FALSE
    /\ mksp_authenticated = FALSE
    /\ input_room_id = <<>>
    /\ valid_codes = {}
    /\ auth_message = "none"
    /\ updates = 0

\* a new session: lines 167-168 and 349-350
InitAuth ==
    /\ pc = "auth"
    /\ IdleAuth

\* the gate is shown and "if st.button(...)" is false: st.stop()
GateShown ==
    /\ ~authenticated
    /\ \E code \in InputCodes : input_room_id' = code
    /\ auth_message' = "none"
    /\ UNCHANGED <<pc, authenticated, mksp_authenticated, valid_codes, updates>>

\* the button with an empty input: st.warning
GateEmptyInput ==
    /\ ~authenticated
    /\ input_room_id' = <<>>
    /\ auth_message' = "enter_code"
    /\ UNCHANGED <<pc, authenticated, mksp_authenticated, valid_codes, updates>>

\* input_room_id.strip() == "mksp": both flags, st.rerun()
GateMasterCode ==
    /\ ~authenticated
    /\ \E code \in InputCodes :
          /\ code # <<>>
          /\ Strip(code) = MasterCode
          /\ input_room_id' = code
    /\ authenticated' = TRUE
    /\ mksp_authenticated' = TRUE
    /\ auth_message' = "special_success"
    /\ UNCHANGED <<pc, valid_codes, updates>>

\* an accepted code of the allow-list sets both flags
GateListAcceptPrivileged ==
    /\ ~authenticated
    /\ \E code \in InputCodes, codes \in AllowLists :
          /\ code # <<>>
          /\ Strip(code) # MasterCode
          /\ Strip(code) \in codes
          /\ input_room_id' = code
          /\ valid_codes' = codes
    /\ authenticated' = TRUE
    /\ mksp_authenticated' = TRUE
    /\ auth_message' = "success"
    /\ UNCHANGED <<pc, updates>>

\* the code is in the allow-list: authenticated, st.rerun()
GateListAccept ==
    /\ ~authenticated
    /\ \E code \in InputCodes, codes \in AllowLists :
          /\ code # <<>>
          /\ Strip(code) # MasterCode
          /\ Strip(code) \in codes
          /\ input_room_id' = code
          /\ valid_codes' = codes
    /\ authenticated' = TRUE
    /\ auth_message' = "success"
    /\ UNCHANGED <<pc, mksp_authenticated, updates>>

\* the code is not in the allow-list: st.error
GateListReject ==
    /\ ~authenticated
    /\ \E code \in InputCodes, codes \in AllowLists :
          /\ code # <<>>
          /\ Strip(code) # MasterCode
          /\ Strip(code) \notin codes
          /\ input_room_id' = code
          /\ valid_codes' = codes
    /\ auth_message' = "invalid_code"
    /\ UNCHANGED <<pc, authenticated, mksp_authenticated, updates>>

\* requests.get, raise_for_status or pd.read_csv raises: st.error
GateListError ==
    /\ ~authenticated
    /\ \E code \in InputCodes :
          /\ code # <<>>
          /\ Strip(code) # MasterCode
          /\ input_room_id' = code
    /\ auth_message' = "list_error"
    /\ UNCHANGED <<pc, authenticated, mksp_authenticated, valid_codes, updates>>

\* a pass of the page in which update_archive_file() is not called: the
\* button is not shown, is not pressed, or the pass stops before it
PageShown ==
    /\ authenticated
    /\ auth_message' = "none"
    /\ UNCHANGED <<pc, authenticated, mksp_authenticated, input_room_id, valid_codes,
                   updates>>

\* "if st.session_state.mksp_authenticated:", the button is pressed
PageUpdateArchive ==
    /\ authenticated
    /\ mksp_authenticated
    /\ updates < MaxUpdates
    /\ updates' = updates + 1
    /\ auth_message' = "none"
    /\ UNCHANGED <<pc, authenticated, mksp_authenticated, input_room_id, valid_codes>>

(***************************************************************************)
(* Specifications: one for each operation.  The variables of the other     *)
(* operations keep their idle values.                                      *)
(***************************************************************************)
vars == <<pc, normVars, fetchVars, mergeVars, durVars, filterVars, archiveVars, writerVars,
          beforeVars, authVars>>

notNorm == <<fetchVars, mergeVars, durVars,
    filterVars, archiveVars, writerVars, beforeVars, authVars>>
notFetch == <<normVars, mergeVars, durVars,
    filterVars, archiveVars, writerVars, beforeVars, authVars>>
notMerge == <<normVars, fetchVars, durVars,
    filterVars, archiveVars, writerVars, beforeVars, authVars>>
notDur == <<normVars, fetchVars, mergeVars,
    filterVars, archiveVars, writerVars, beforeVars, authVars>>
notFilter == <<normVars, fetchVars, mergeVars,
    durVars, archiveVars, writerVars, beforeVars, authVars>>
notArchive == <<normVars, fetchVars, mergeVars,
    durVars, filterVars, writerVars, beforeVars, authVars>>
notWriter == <<normVars, fetchVars, mergeVars,
    durVars, filterVars, archiveVars, beforeVars, authVars>>

NextNorm == NormApply /\ UNCHANGED notNorm

StartNorm ==
    /\ InitNorm
    /\ IdleFetch
    /\ IdleMerge
    /\ IdleDur
    /\ IdleFilter
    /\ IdleArchive
    /\ IdleWriter
    /\ IdleBefore
    /\ IdleAuth

SpecNorm == StartNorm /\ [][NextNorm]_vars

NextFetch ==
    \/ FetchEnterStatus /\ UNCHANGED notFetch
    \/ FetchPageEvents /\ UNCHANGED notFetch
    \/ FetchPageEmpty /\ UNCHANGED notFetch
    \/ FetchRequestError /\ UNCHANGED notFetch
    \/ FetchJsonError /\ UNCHANGED notFetch
    \/ FetchPageCap /\ UNCHANGED notFetch
    \/ FetchReturn /\ UNCHANGED notFetch

StartFetch ==
    /\ InitFetch
    /\ IdleNorm
    /\ IdleMerge
    /\ IdleDur
    /\ IdleFilter
    /\ IdleArchive
    /\ IdleWriter
    /\ IdleBefore
    /\ IdleAuth

SpecFetch == StartFetch /\ [][NextFetch]_vars

NextMerge ==
    \/ MergeLive /\ UNCHANGED notMerge
    \/ MergeArchive /\ UNCHANGED notMerge
    \/ MergeList /\ UNCHANGED notMerge

StartMerge ==
    /\ InitMerge
    /\ IdleNorm
    /\ IdleFetch
    /\ IdleDur
    /\ IdleFilter
    /\ IdleArchive
    /\ IdleWriter
    /\ IdleBefore
    /\ IdleAuth

SpecMerge == StartMerge /\ [][NextMerge]_vars

NextDur == DurApply /\ UNCHANGED notDur

StartDur ==
    /\ InitDur
    /\ IdleNorm
    /\ IdleFetch
    /\ IdleMerge
    /\ IdleFilter
    /\ IdleArchive
    /\ IdleWriter
    /\ IdleBefore
    /\ IdleAuth

SpecDur == StartDur /\ [][NextDur]_vars

NextFilter ==
    \/ FilterStartDates /\ UNCHANGED notFilter
    \/ FilterEndDates /\ UNCHANGED notFilter
    \/ FilterDurations /\ UNCHANGED notFilter
    \/ FilterDurationsRaise /\ UNCHANGED notFilter
    \/ FilterTargets /\ UNCHANGED notFilter

StartFilter ==
    /\ InitFilter
    /\ IdleNorm
    /\ IdleFetch
    /\ IdleMerge
    /\ IdleDur
    /\ IdleArchive
    /\ IdleWriter
    /\ IdleBefore
    /\ IdleAuth

SpecFilter == StartFilter /\ [][NextFilter]_vars

NextArchive ==
    \/ ArchiveRead /\ UNCHANGED notArchive
    \/ ArchiveRequestError /\ UNCHANGED notArchive
    \/ ArchiveParseError /\ UNCHANGED notArchive

StartArchive ==
    /\ InitArchive
    /\ IdleNorm
    /\ IdleFetch
    /\ IdleMerge
    /\ IdleDur
    /\ IdleFilter
    /\ IdleWriter
    /\ IdleBefore
    /\ IdleAuth

SpecArchive == StartArchive /\ [][NextArchive]_vars

NextWriter ==
    \/ \E r \in Runs : WriterFetch(r) /\ UNCHANGED notWriter
    \/ \E r \in Runs : WriterFetchNothing(r) /\ UNCHANGED notWriter
    \/ \E r \in Runs : WriterGetArchive(r) /\ UNCHANGED notWriter
    \/ \E r \in Runs : WriterGetArchiveNone(r) /\ UNCHANGED notWriter
    \/ \E r \in Runs : WriterGetArchiveAbort(r) /\ UNCHANGED notWriter
    \/ \E r \in Runs : WriterPutArchive(r) /\ UNCHANGED notWriter
    \/ \E r \in Runs : WriterPutArchiveAbort(r) /\ UNCHANGED notWriter
    \/ \E r \in Runs : WriterGetLog(r) /\ UNCHANGED notWriter
    \/ \E r \in Runs : WriterGetLogNone(r) /\ UNCHANGED notWriter
    \/ \E r \in Runs : WriterGetLogAbort(r) /\ UNCHANGED notWriter
    \/ \E r \in Runs : WriterPutLog(r) /\ UNCHANGED notWriter
    \/ \E r \in Runs : WriterPutLogAbort(r) /\ UNCHANGED notWriter

StartWriter ==
    /\ InitWriter
    /\ IdleNorm
    /\ IdleFetch
    /\ IdleMerge
    /\ IdleDur
    /\ IdleFilter
    /\ IdleArchive
    /\ InitBefore
    /\ IdleAuth

SpecWriter == StartWriter /\ [][NextWriter]_vars

StartRace ==
    /\ InitRace
    /\ InitBefore
    /\ IdleNorm
    /\ IdleFetch
    /\ IdleMerge
    /\ IdleDur
    /\ IdleFilter
    /\ IdleArchive
    /\ IdleAuth

SpecRace == StartRace /\ [][NextWriter]_vars

notAuth == <<normVars, fetchVars, mergeVars, durVars, filterVars, archiveVars,
    writerVars, beforeVars>>

NextAuth ==
    \/ GateShown /\ UNCHANGED notAuth
    \/ GateEmptyInput /\ UNCHANGED notAuth
    \/ GateMasterCode /\ UNCHANGED notAuth
    \/ GateListAccept /\ UNCHANGED notAuth
    \/ GateListReject /\ UNCHANGED notAuth
    \/ GateListError /\ UNCHANGED notAuth
    \/ PageShown /\ UNCHANGED notAuth
    \/ PageUpdateArchive /\ UNCHANGED notAuth

StartAuth ==
    /\ InitAuth
    /\ IdleNorm
    /\ IdleFetch
    /\ IdleMerge
    /\ IdleDur
    /\ IdleFilter
    /\ IdleArchive
    /\ IdleWriter
    /\ IdleBefore

SpecAuth == StartAuth /\ [][NextAuth]_vars

(***************************************************************************)
(* Claims about normalize_event_id_val.                                    *)
(***************************************************************************)
\* the value is one of the spellings of an integral identifier
IsIntegralSpelling(v) ==
    \/ v.kind = "int"
    \/ v.kind = "float" /\ v.f = 0
    \/ v.kind = "str" /\ MatchesIntegral(Strip(v.s))

IntegralValue(v) == IF v.kind = "str" THEN IntOfFloatStr(Strip(v.s)) ELSE v.n

\* str(val)
StrOf(v) ==
    IF v.kind = "str" THEN v.s
    ELSE IF v.kind = "int" THEN IntToStr(v.n)
    ELSE FloatRepr(v)

\* what the claim has the normalizer return
C3_Expected(v) ==
    IF v = PyNone \/ v = ReadCsvCell(<<>>) THEN RetNone
    ELSE IF v.kind = "str" /\ Strip(v.s) = <<>> THEN RetNone
    ELSE IF IsIntegralSpelling(v) THEN RetStr(IntToStr(IntegralValue(v)))
    ELSE RetStr(Strip(StrOf(v)))

\* C3: every spelling of an integral identifier yields its decimal string;
\* None, a missing CSV cell and an empty or blank string yield None; any
\* other value yields its trimmed string form.
C3_NormalizerContract ==
    pc = "norm_done" => norm_result = C3_Expected(val)

(***************************************************************************)
(* Claims about the merge.                                                 *)
(***************************************************************************)
KeyOf(event) == normalize_event_id_val(event.event_id)

ValidKeys(events) ==
    {KeyOf(events[i]) : i \in {j \in 1..Len(events) : KeyOf(events[j]).valid}}

\* the places of the live list whose identifier normalizes to key
LivePlaces(key) == {i \in 1..Len(fetched_events) : KeyOf(fetched_events[i]) = key}

SetMax(S) == CHOOSE m \in S : \A x \in S : x <= m

\* C1: a merged record whose identifier occurs, normalized, in the live list
\* is the live record, the last one of the live list with that identifier,
\* and never the archived one.
C1_LivePrecedence ==
    pc = "merge_done" =>
        \A k \in 1..Len(merged_events) :
            LET key == KeyOf(merged_events[k])
            IN LivePlaces(key) # {} =>
                   merged_events[k].origin = <<"live", SetMax(LivePlaces(key))>>

\* a finished merge where an identifier came twice in the live list, in two
\* spellings, and once in the archive
C1_Witness ==
    /\ pc = "merge_done"
    /\ \E i, j \in 1..Len(fetched_events) :
        /\ i < j
        /\ fetched_events[i].event_id # fetched_events[j].event_id
        /\ KeyOf(fetched_events[i]) = KeyOf(fetched_events[j])
        /\ KeyOf(fetched_events[i]).valid
        /\ \E a \in 1..Len(past_events) : KeyOf(past_events[a]) = KeyOf(fetched_events[i])

\* C2: the identifiers of the merged list are the valid normalized
\* identifiers of the live and of the archived list, no more and no fewer,
\* each on one record, which carries it in its normalized form.
C2_KeySet ==
    pc = "merge_done" =>
        /\ {KeyOf(merged_events[k]) : k \in 1..Len(merged_events)}
               = ValidKeys(fetched_events) \cup ValidKeys(past_events)
        /\ \A k \in 1..Len(merged_events) :
               /\ KeyOf(merged_events[k]).valid
               /\ merged_events[k].event_id = PyStr(KeyOf(merged_events[k]).s)
        /\ \A k, l \in 1..Len(merged_events) :
               KeyOf(merged_events[k]) = KeyOf(merged_events[l]) => k = l

\* a finished merge of a live list holding an invalid identifier and one
\* shared with the archive, and an archive holding one more
C2_Witness ==
    /\ pc = "merge_done"
    /\ \E i \in 1..Len(fetched_events) : ~KeyOf(fetched_events[i]).valid
    /\ ValidKeys(fetched_events) \cap ValidKeys(past_events) # {}
    /\ ValidKeys(past_events) \ ValidKeys(fetched_events) # {}
    /\ ValidKeys(fetched_events) \ ValidKeys(past_events) # {}
    /\ Len(merged_events) = 3

(***************************************************************************)
(* Claims about get_duration_category.                                     *)
(***************************************************************************)
\* C8: the label is the one of the five that the claim's thresholds give
\* the duration d = end - start: d <= 3 days, 3 days < d <= 7 days,
\* 7 days < d <= 10 days, 10 days < d <= 14 days, d > 14 days, in seconds.
C8_Thresholds ==
    pc = "dur_done" =>
        LET d == end_ts - start_ts
        IN /\ category \in DurationOptions
           /\ category = "within3days" <=> d <= 259200
           /\ category = "1week" <=> (259200 < d /\ d <= 604800)
           /\ category = "10days" <=> (604800 < d /\ d <= 864000)
           /\ category = "2weeks" <=> (864000 < d /\ d <= 1209600)
           /\ category = "other" <=> d > 1209600

\* a call on the exact boundary of 3 days, labelled with the shorter bucket
C8_Witness ==
    /\ pc = "dur_done"
    /\ start_ts > 0
    /\ end_ts - start_ts = 3 * 86400
    /\ category = "within3days"

(***************************************************************************)
(* Claims about the filters.                                               *)
(***************************************************************************)
\* the event matches one of the values selected, for each multiselect with
\* a selection
MatchesSelection(e) ==
    /\ selected_start_dates # {} =>
          Has(e, "started_at") /\ JstDate(e.started_at) \in selected_start_dates
    /\ selected_end_dates # {} =>
          Has(e, "ended_at") /\ JstDate(e.ended_at) \in selected_end_dates
    /\ selected_durations # {} =>
          /\ Has(e, "started_at")
          /\ Has(e, "ended_at")
          /\ get_duration_category(e.started_at, e.ended_at) \in selected_durations
    /\ selected_targets # {} =>
          /\ Has(e, "is_entry_scope_inner")
          /\ e.is_entry_scope_inner \in {TargetValue(l) : l \in selected_targets}

FiltersRan == pc \in {"filter_done", "filter_raised"}

\* C6: for any merged list and any selection the filters yield the list
\* of the events that match, for every multiselect with a selection, one
\* of its values, in the order of the merged list (the whole list when
\* nothing is selected).
C6_FilterSemantics ==
    FiltersRan =>
        /\ pc = "filter_done"
        /\ filtered_events = SelectSeq(shown_events, MatchesSelection)

\* the field a filter with a selection needs and the event lacks
LacksNeededField(e) ==
    \/ selected_start_dates # {} /\ ~Has(e, "started_at")
    \/ selected_end_dates # {} /\ ~Has(e, "ended_at")
    \/ selected_durations # {} /\ (~Has(e, "started_at") \/ ~Has(e, "ended_at"))
    \/ selected_targets # {} /\ ~Has(e, "is_entry_scope_inner")

\* C7: the filters never raise, and an event that lacks a field a filter
\* with a selection needs is not in their result.
C7_IncompleteExcluded ==
    /\ pc # "filter_raised"
    /\ pc = "filter_done" =>
          \A i \in 1..Len(filtered_events) : ~LacksNeededField(filtered_events[i])

(***************************************************************************)
(* Claims about get_past_events_from_files.                                *)
(***************************************************************************)
IdOfLine(i) == normalize_event_id_val(ReadCsvCell(csv_rows[i].event_id))

\* C9: every row returned has numeric times, an identifier that was neither
\* missing nor blank in the CSV and that no other returned row shares, is
\* the last line of the CSV with that identifier, and ended before now; the
\* rows come by ended_at descending; after a failure the list is empty.
C9_ArchivePostcondition ==
    pc = "archive_done" =>
        /\ \A k \in 1..Len(archive_result) :
              LET r == archive_result[k]
                  line == csv_rows[r.row]
              IN /\ AllIn(line.started_at, DigitChars) /\ line.started_at # <<>>
                 /\ AllIn(line.ended_at, DigitChars) /\ line.ended_at # <<>>
                 /\ Strip(line.event_id) # <<>>
                 /\ r.event_id = PyStr(IdOfLine(r.row).s)
                 /\ \A l \in 1..Len(archive_result) :
                        archive_result[l].event_id = r.event_id => l = k
                 /\ \A j \in 1..Len(csv_rows) : IdOfLine(j) = IdOfLine(r.row) => j <= r.row
                 /\ r.ended_at < now_timestamp
        /\ \A k \in 1..(Len(archive_result) - 1) :
              archive_result[k].ended_at >= archive_result[k + 1].ended_at
        /\ archive_warning # "none" => archive_result = <<>>

(***************************************************************************)
(* Claims about update_archive_file.                                       *)
(***************************************************************************)
FtpSteps == {"download_archive", "upload_archive", "download_log", "upload_log"}

\* C10, for the four FTP steps: a step that failed is the last step of its
\* run; in particular no upload of the archive follows a failed download
\* of the archive the server holds.  (The fetch is left out: get_events
\* shows its failures and returns what it has, see C5.)
C10_AbortOnFailure ==
    \A r \in Runs :
        /\ \A i \in 1..(Len(steps[r]) - 1) :
              steps[r][i].step \in FtpSteps => steps[r][i].outcome # "failed"
        /\ \A i, j \in 1..Len(steps[r]) :
              ~ /\ i < j
                /\ steps[r][i] = Step("download_archive", "failed")
                /\ steps[r][j] = Step("upload_archive", "ok")

\* the identifiers of the rows of an archive file, as pandas reads them
IdsOfFile(file) ==
    {normalize_event_id_val(ReadCsvCell(file.rows[i].event_id)) : i \in 1..Len(file.rows)}

IdsOfFrame(df) == {df[i].event_id : i \in 1..Len(df)}

RowsOfId(file, id) ==
    {i \in 1..Len(file.rows) :
        normalize_event_id_val(ReadCsvCell(file.rows[i].event_id)) = id}

\* C11: when a run has reported success, the archive it uploaded holds one
\* row for each identifier of the archive the server held before the run
\* and of the batch the run fetched, and no other; the row of an identifier
\* of the batch is the row of the batch.
C11_MergeKeepsAll ==
    \A r \in Runs :
        message[r] = "success" =>
            /\ IdsOfFile(remote_archive) = IdsOfFile(archive_before) \cup IdsOfFrame(new_df[r])
            /\ \A id \in IdsOfFile(remote_archive) :
                  Cardinality(RowsOfId(remote_archive, id)) = 1
            /\ \A i \in 1..Len(new_df[r]) :
                  \A k \in RowsOfId(remote_archive, new_df[r][i].event_id) :
                      remote_archive.rows[k].ver = new_df[r][i].ver

StepsBefore(r, j) == {steps[r][i] : i \in 1..(j - 1)}

\* C14: a run touches the log only after its upload of the archive has
\* succeeded, and when the run has completed the log is the log the server
\* held before the run followed by the one line of the run.
C14_LogAppendOnly ==
    \A r \in Runs :
        /\ \A j \in 1..Len(steps[r]) :
              steps[r][j].step \in {"download_log", "upload_log"} =>
                  Step("upload_archive", "ok") \in StepsBefore(r, j)
        /\ wpc[r] = "w_done" =>
              /\ remote_log.exists
              /\ remote_log.rows = Append(log_before.rows, OwnLine(r))

\* C15: a run whose fetch yielded no event (the warning of line 120 is what
\* it showed) has taken no FTP step, and the files of the server are as they
\* were when the button was pressed.
C15_EmptyFetchNoFtp ==
    \A r \in Runs :
        message[r] = "warning" =>
            /\ \A i \in 1..Len(steps[r]) : steps[r][i].step \notin FtpSteps
            /\ remote_archive = archive_before
            /\ remote_log = log_before

\* every request of the fetch failed, the server holds an archive with rows
\* and a log with a line, and the run has returned
C15_Witness ==
    \E r \in Runs :
        /\ wpc[r] = "w_returned"
        /\ message[r] = "warning"
        /\ steps[r] = <<Step("fetch", "failed")>>
        /\ archive_before.exists /\ archive_before.rows # <<>>
        /\ log_before.exists /\ log_before.rows # <<>>

OtherRun(r) == CHOOSE q \in Runs : q # r

\* both runs read the archive the server held when the buttons were pressed
SameOldArchive ==
    \A r \in Runs :
        /\ \E i \in 1..Len(steps[r]) :
              /\ steps[r][i].step = "download_archive"
              /\ steps[r][i].outcome \in {"ok", "absent"}
        /\ old_df[r] = OldFrame(archive_before)

\* the identifiers only run r contributed
OnlyOf(r) ==
    IdsOfFrame(new_df[r]) \ (IdsOfFile(archive_before) \cup IdsOfFrame(new_df[OtherRun(r)]))

\* C13: of two runs that read the same archive and both reported success,
\* one (the later to upload) decides the archive alone: the archive is its
\* merged_df, and it holds no identifier that only the other run
\* contributed.
C13_LastWriterWins ==
    ((\A r \in Runs : message[r] = "success") /\ SameOldArchive) =>
        \E r \in Runs :
            /\ remote_archive = File(ToCsv(merged_df[r]))
            /\ OnlyOf(OtherRun(r)) \cap IdsOfFile(remote_archive) = {}

\* both runs read an archive with rows, no step of either failed, both
\* reported success, and an identifier only one of them contributed is not
\* in the archive
C13_Witness ==
    /\ \A r \in Runs : message[r] = "success" /\ wpc[r] = "w_done"
    /\ SameOldArchive
    /\ archive_before.exists /\ archive_before.rows # <<>>
    /\ \A r \in Runs : \A i \in 1..Len(steps[r]) : steps[r][i].outcome = "ok"
    /\ \E r \in Runs : \E id \in OnlyOf(r) : id \notin IdsOfFile(remote_archive)

(***************************************************************************)
(* Claims about the authentication gate of main().                         *)
(***************************************************************************)
\* what a pass does to the flags and to the archive writer
C12_PassRespectsGate ==
    \* update_archive_file() is called only with mksp_authenticated true
    /\ updates' # updates => mksp_authenticated
    \* mksp_authenticated becomes true only by the master code
    /\ (mksp_authenticated' /\ ~mksp_authenticated) =>
          /\ auth_message' = "special_success"
          /\ input_room_id' # <<>>
          /\ Strip(input_room_id') = MasterCode
    \* a code of the allow-list sets authenticated alone
    /\ auth_message' = "success" =>
          /\ Strip(input_room_id') \in valid_codes'
          /\ authenticated'
          /\ ~mksp_authenticated'
    \* a rejected or failed attempt changes neither flag
    /\ auth_message' \in {"invalid_code", "list_error", "enter_code"} =>
          UNCHANGED <<authenticated, mksp_authenticated>>
    \* no pass clears a flag
    /\ authenticated => authenticated'
    /\ mksp_authenticated => mksp_authenticated'

\* C12: in every session mksp_authenticated implies authenticated, and every
\* pass respects the gate: the archive writer is called only with
\* mksp_authenticated true, the flag rises only by the master code, a code
\* of the allow-list sets authenticated and not mksp_authenticated, and a
\* rejected or failed attempt leaves both flags as they were.
C12_PrivilegedGating ==
    /\ [](mksp_authenticated => authenticated)
    /\ [][C12_PassRespectsGate]_vars

\* after an attempt with a code of a fetched allow-list that holds the
\* master code too, the master code was submitted and the archive writer
\* was called
C12_Witness ==
    /\ mksp_authenticated
    /\ authenticated
    /\ updates >= 1
    /\ Strip(input_room_id) = MasterCode
    /\ MasterCode \in valid_codes

(***************************************************************************)
(* Claims about get_events.                                                *)
(***************************************************************************)
RequestsOf(s) == SelectSeq(requests, LAMBDA r : r.status = s)

IsFailure(r) == r.outcome \in {"request_error", "json_error"}

\* decreases with every step of get_events
FetchMeasure ==
    LET left == (Len(statuses) - st_idx) * (MaxPages + 3)
    IN CASE pc = "fetch_status" -> left + 1
         [] pc = "fetch_page" -> left + 2 + (MaxPages - iter)
         [] OTHER -> 0

C4_PagesInSequence ==
    /\ \A i \in 1..Len(requests) :
          \E j \in 1..Len(statuses) : statuses[j] = requests[i].status
    /\ \A j \in 1..Len(statuses) :
          LET rs == RequestsOf(statuses[j])
          IN /\ Len(rs) <= MaxPages
             /\ \A k \in 1..Len(rs) : rs[k].page = k
             /\ \A k \in 1..(Len(rs) - 1) : rs[k].outcome # "empty"
    /\ Len(requests) <= MaxPages * Len(statuses)

\* C4: for each status the requests are for pages 1, 2, 3, ... with no gap
\* and no repeat, none follows an empty page, there are at most 20 of them
\* (20 * n in all), and every step of the call brings its return nearer, so
\* the call terminates even when no page is ever empty.
C4_Pagination == []C4_PagesInSequence /\ [][FetchMeasure' < FetchMeasure]_vars

\* a finished call in which one status ran into the cap of 20 pages, none of
\* them empty, and another stopped at an empty page 3
C4_Witness ==
    /\ pc = "fetch_done"
    /\ \E j, k \in 1..Len(statuses) :
        /\ Len(RequestsOf(statuses[j])) = MaxPages
        /\ \A i \in 1..MaxPages : RequestsOf(statuses[j])[i].outcome = "events"
        /\ Len(RequestsOf(statuses[k])) = 3
        /\ RequestsOf(statuses[k])[3].outcome = "empty"

\* the events of the pages fetched, in the order of the requests
RECURSIVE EventsOfLog(_)
EventsOfLog(log) ==
    IF log = <<>> THEN <<>>
    ELSE LET r == log[Len(log)]
             before == EventsOfLog(SubSeq(log, 1, Len(log) - 1))
         IN IF r.outcome = "events" THEN Append(before, PageEvent(r.status, r.page))
            ELSE before

IndexOfStatus(s) == CHOOSE j \in 1..Len(statuses) : statuses[j] = s

\* C5: a failed request ends the paging of its status only: the call never
\* raises, the events of every page fetched stay in the result, the request
\* after a failed one is for page 1 of the next status, and at the return
\* every status has been asked for its page 1.
C5_ErrorIsolation ==
    /\ pc \in {"fetch_status", "fetch_page", "fetch_done"}
    /\ all_events = EventsOfLog(requests)
    /\ \A i \in 1..(Len(requests) - 1) :
          IsFailure(requests[i]) =>
              /\ IndexOfStatus(requests[i].status) < Len(statuses)
              /\ requests[i + 1].status = statuses[IndexOfStatus(requests[i].status) + 1]
              /\ requests[i + 1].page = 1
    /\ pc = "fetch_done" =>
          \A j \in 1..Len(statuses) :
              \E i \in 1..Len(requests) :
                  requests[i].status = statuses[j] /\ requests[i].page = 1

\* a finished call whose first status failed on page 3 and on an error of
\* each kind, and whose last status delivered events after that
C5_Witness ==
    /\ pc = "fetch_done"
    /\ Len(statuses) = 3
    /\ Len(requests) >= 6
    /\ requests[3] = Request(statuses[1], 3, "request_error")
    /\ requests[4] = Request(statuses[2], 1, "json_error")
    /\ requests[5] = Request(statuses[3], 1, "events")
    /\ all_events = <<PageEvent(statuses[1], 1), PageEvent(statuses[1], 2),
                      PageEvent(statuses[3], 1)>>

=============================================================================
